---- MODULE Spec2Model ----
(***************************************************************************)
(* spara: Run / RunWithContext (src/spara.go).  A fixed pool of worker     *)
(* goroutines maps a function over the indices [0, iterations); the first  *)
(* error, or the completion of the parent context, stops the iteration.   *)
(*                                                                         *)
(* Every atomic operation of the code (atomic.AddInt32, atomic.StoreInt32, *)
(* atomic.CompareAndSwapInt32, cancel(), the write of firsterr, a call of  *)
(* the mapping function and its return) is one step of the model, so that  *)
(* the goroutines interleave as the Go scheduler lets them.                *)
(***************************************************************************)
EXTENDS Integers, FiniteSets, Sequences, TLC

\* Largest workers argument and largest iterations argument explored.
MaxWorkers == 3
MaxIterations == 3

\* Largest workers and iterations arguments explored under fair scheduling.
FairMaxWorkers == 2
FairMaxIterations == 3

\* The cursor is an int32 (var index int32).
Int32Max == 2147483647
\* The largest value of the narrow cursor type that stands for int32 where the
\* wrap-around of the cursor is explored.
NarrowMax == 3
Int32Min == (-Int32Max) - 1

VARIABLES
    api,         \* "Run" or "RunWithContext": the entry point called
    workersArg,  \* the workers argument
    iterations,  \* the iterations argument
    fnNil,       \* fn == nil
    fn,          \* what the mapping function does at each index
    parent,      \* "nil", "background" (Done() == nil) or "cancel" (can complete)
    parentDone,  \* parent.Done() is closed
    lateCancel,  \* the parent completed after every unit had returned nil
    pc,          \* position of the calling goroutine
    result,      \* the error returned to the caller
    workers,     \* workers after the clamp to iterations
    spawned,     \* the loop variable i of the spawning loop
    index,       \* the shared cursor
    killOnce,    \* 0 running, 1 a worker failed, 2 parent done, 3 resolved
    firsterr,    \* the error recorded by kill
    ctxDone,     \* ctx.Done() is closed
    ctxErr,      \* ctx.Err()
    wg,          \* the WaitGroup counter
    watcher,     \* position of the goroutine watching ctx.Done()
    wpc,         \* position of each worker goroutine
    wj,          \* each worker's loop variable j
    werr,        \* each worker's err
    calls,       \* calls[i]: how many times fn was invoked with index i
    cursorMax    \* the largest value of the cursor's integer type

vars == <<api, workersArg, iterations, fnNil, fn, parent, parentDone, lateCancel,
          pc, result, workers, spawned, index, killOnce, firsterr, ctxDone,
          ctxErr, wg, watcher, wpc, wj, werr, calls, cursorMax>>

inputs == <<api, workersArg, iterations, fnNil, fn, parent, cursorMax>>

WorkerIds == 0 .. (MaxWorkers - 1)
CallDomain == 0 .. (MaxIterations + MaxWorkers)

----------------------------------------------------------------------------
\* Error values.

MkErr(kind, i) == [kind |-> kind, index |-> i]
NoError == MkErr("nil", 0)
ErrInvalidWorkers == MkErr("ErrInvalidWorkers", 0)
ErrInvalidIterations == MkErr("ErrInvalidIterations", 0)
ErrNilMappingFunction == MkErr("ErrNilMappingFunction", 0)
ErrNilContext == MkErr("ErrNilContext", 0)
\* context.Canceled: the error of a context cancelled by its own cancel().
Canceled == MkErr("context.Canceled", 0)
\* parent.Err() once the parent is done.
ParentErr == MkErr("parent.Err", 0)
\* The error the mapping function returns at index i.
UnitError(i) == MkErr("unit", i)

----------------------------------------------------------------------------
\* The cursor.

\* The cursor's type holds cursorMin .. cursorMax and wraps around: int32 in
\* the code (cursorMax = Int32Max).
cursorMin == (-cursorMax) - 1

\* int32(x)
ToInt32(x) ==
    IF x >= cursorMin /\ x <= cursorMax THEN x
    ELSE ((x - cursorMin) % (2 * cursorMax + 2)) + cursorMin

\* atomic.AddInt32(&v, d) for a small d >= 0: the new value.
AddInt32(v, d) == IF v > cursorMax - d THEN cursorMin + (d - (cursorMax - v) - 1) ELSE v + d

\* var index int32 = int32(workers - 1)
InitialIndexOffByOne(w) == ToInt32(w)
InitialIndex(w) == ToInt32(w - 1)

\* stopIteration stores int32(iterations).
StopValueKeep(cur, n) == cur
StopValue(cur, n) == ToInt32(n)

----------------------------------------------------------------------------
\* Run and the argument checks of RunWithContext, in the code's order.  The
\* answer is [ret |-> TRUE, err |-> e] for an early return and ret = FALSE
\* when the call goes on to start workers.

Return(e) == [ret |-> TRUE, err |-> e]
Continue == [ret |-> FALSE, err |-> NoError]

\* Variants of the checks: the eager look at parent.Done() left out; the
\* iterations check before the workers check; the eager look before the
\* iterations == 0 return.
ChecksWithoutEagerDone(p, pDone, w, n, nilFn) ==
    IF w <= 0 THEN Return(ErrInvalidWorkers)
    ELSE IF n < 0 THEN Return(ErrInvalidIterations)
    ELSE IF nilFn THEN Return(ErrNilMappingFunction)
    ELSE IF p = "nil" THEN Return(ErrNilContext)
    ELSE IF n = 0 THEN Return(NoError)
    ELSE Continue
ChecksIterationsFirst(p, pDone, w, n, nilFn) ==
    IF n < 0 THEN Return(ErrInvalidIterations)
    ELSE IF w <= 0 THEN Return(ErrInvalidWorkers)
    ELSE IF nilFn THEN Return(ErrNilMappingFunction)
    ELSE IF p = "nil" THEN Return(ErrNilContext)
    ELSE IF n = 0 THEN Return(NoError)
    ELSE IF pDone THEN Return(ParentErr)
    ELSE Continue
ChecksEagerDoneFirst(p, pDone, w, n, nilFn) ==
    IF w <= 0 THEN Return(ErrInvalidWorkers)
    ELSE IF n < 0 THEN Return(ErrInvalidIterations)
    ELSE IF nilFn THEN Return(ErrNilMappingFunction)
    ELSE IF p = "nil" THEN Return(ErrNilContext)
    ELSE IF pDone THEN Return(ParentErr)
    ELSE IF n = 0 THEN Return(NoError)
    ELSE Continue
RunWithContextChecks(p, pDone, w, n, nilFn) ==
    IF w <= 0 THEN Return(ErrInvalidWorkers)
    ELSE IF n < 0 THEN Return(ErrInvalidIterations)
    ELSE IF nilFn THEN Return(ErrNilMappingFunction)
    ELSE IF p = "nil" THEN Return(ErrNilContext)
    ELSE IF n = 0 THEN Return(NoError)
    ELSE IF pDone THEN Return(ParentErr)
    ELSE Continue

EntryChecks(a, p, pDone, w, n, nilFn) ==
    IF a = "Run"
    THEN IF nilFn THEN Return(ErrNilMappingFunction)
         ELSE RunWithContextChecks("background", FALSE, w, n, FALSE)
    ELSE RunWithContextChecks(p, pDone, w, n, nilFn)

\* if workers > iterations { workers = iterations }
ClampMissing(w, n) == w
Clamp(w, n) == IF w > n THEN n ELSE w

----------------------------------------------------------------------------
Behaviours == {"ok", "fail", "block"}

Init ==
    /\ api \in {"Run", "RunWithContext"}
    /\ workersArg \in -1 .. MaxWorkers
    /\ iterations \in -1 .. MaxIterations
    /\ fnNil \in BOOLEAN
    /\ fn \in [0 .. (iterations - 1) -> Behaviours]
    /\ parent \in (IF api = "Run" THEN {"background"} ELSE {"nil", "background", "cancel"})
    /\ parentDone \in (IF parent = "cancel" THEN BOOLEAN ELSE {FALSE})
    /\ lateCancel = FALSE
    /\ pc = "call"
    /\ result = NoError
    /\ workers = 0
    /\ spawned = 0
    /\ index = 0
    /\ killOnce = 0
    /\ firsterr = NoError
    /\ ctxDone = FALSE
    /\ ctxErr = NoError
    /\ wg = 0
    /\ watcher = "none"
    /\ wpc = [w \in WorkerIds |-> "idle"]
    /\ wj = [w \in WorkerIds |-> 0]
    /\ werr = [w \in WorkerIds |-> NoError]
    /\ calls = [i \in CallDomain |-> 0]
    /\ cursorMax = Int32Max

----------------------------------------------------------------------------
\* The calling goroutine.

\* Run (nil check, wrapping of fn) and RunWithContext up to the eager check
\* of parent.Done(): either an early return or the clamp of workers.
Enter ==
    /\ pc = "call"
    /\ LET r == EntryChecks(api, parent, parentDone, workersArg, iterations, fnNil)
       IN IF r.ret
          THEN /\ pc' = "returned"
               /\ result' = r.err
               /\ workers' = workers
          ELSE /\ pc' = "setup"
               /\ result' = result
               /\ workers' = Clamp(workersArg, iterations)
    /\ UNCHANGED <<inputs, parentDone, lateCancel, spawned, index, killOnce,
                   firsterr, ctxDone, ctxErr, wg, watcher, wpc, wj, werr, calls>>

\* parent.Done() != nil: the parent can complete (context.Background cannot).
ParentCanComplete == parent = "cancel"

\* The cursor, ctx/cancel := context.WithCancel(parent), killOnce, firsterr,
\* the watcher goroutine and wg.Add(workers).  A child of a parent that is
\* already done is created cancelled, with the parent's error.
\* wg.Add(workers), with workers already clamped.
WgAddUnclamped(clamped, given) == given
WgAdd(clamped, given) == clamped

Setup ==
    /\ pc = "setup"
    /\ index' = InitialIndex(workers)
    /\ killOnce' = 0
    /\ firsterr' = NoError
    /\ ctxDone' = parentDone
    /\ ctxErr' = IF parentDone THEN ParentErr ELSE NoError
    /\ watcher' = IF ParentCanComplete THEN "waiting" ELSE "none"
    /\ wg' = WgAdd(workers, workersArg)
    /\ spawned' = 0
    /\ pc' = "spawn"
    /\ UNCHANGED <<inputs, parentDone, lateCancel, result, workers, wpc, wj, werr, calls>>

\* One round of: for i := 0; i < workers; i++ { go func(start int) {...}(i) }
SpawnWorker ==
    /\ pc = "spawn"
    /\ IF spawned < workers
       THEN /\ wpc' = [wpc EXCEPT ![spawned] = "loop"]
            /\ wj' = [wj EXCEPT ![spawned] = spawned]
            /\ spawned' = spawned + 1
            /\ pc' = pc
       ELSE /\ pc' = "wait"
            /\ UNCHANGED <<wpc, wj, spawned>>
    /\ UNCHANGED <<inputs, parentDone, lateCancel, result, workers, index, killOnce,
                   firsterr, ctxDone, ctxErr, wg, watcher, werr, calls>>

\* wg.Wait() returns once the counter is zero.
WaitNoJoin == TRUE
WaitDone == wg = 0

Wait ==
    /\ pc = "wait"
    /\ WaitDone
    /\ pc' = "resolve"
    /\ UNCHANGED <<inputs, parentDone, lateCancel, result, workers, spawned, index,
                   killOnce, firsterr, ctxDone, ctxErr, wg, watcher, wpc, wj, werr, calls>>

\* The statements after wg.Wait(): the error returned and the value the final
\* compare-and-swap leaves in killOnce.
ResolutionIgnoresFirstErr(ferr, canComplete, ko, cerr) ==
    IF ~canComplete THEN [err |-> NoError, killOnce |-> ko]
    ELSE IF ko = 0 THEN [err |-> NoError, killOnce |-> 3]
    ELSE [err |-> cerr, killOnce |-> ko]
ResolutionWithoutExternal(ferr, canComplete, ko, cerr) ==
    IF ferr # NoError THEN [err |-> ferr, killOnce |-> ko]
    ELSE [err |-> NoError, killOnce |-> ko]
Resolution(ferr, canComplete, ko, cerr) ==
    IF ferr # NoError THEN [err |-> ferr, killOnce |-> ko]
    ELSE IF ~canComplete THEN [err |-> NoError, killOnce |-> ko]
    ELSE IF ko = 0 THEN [err |-> NoError, killOnce |-> 3]
    ELSE [err |-> cerr, killOnce |-> ko]

\* defer cancel(): ctx.Done() is closed when RunWithContext returns.
DeferredCancelMissing(done) == done
DeferredCancel(done) == TRUE

\* Lines 153-170 and the deferred cancel().
Resolve ==
    /\ pc = "resolve"
    /\ LET r == Resolution(firsterr, ParentCanComplete, killOnce, ctxErr)
       IN /\ result' = r.err
          /\ killOnce' = r.killOnce
    /\ ctxDone' = DeferredCancel(ctxDone)
    /\ ctxErr' = IF ctxDone' /\ ~ctxDone THEN Canceled ELSE ctxErr
    /\ pc' = "returned"
    /\ UNCHANGED <<inputs, parentDone, lateCancel, workers, spawned, index, firsterr,
                   wg, watcher, wpc, wj, werr, calls>>

----------------------------------------------------------------------------
\* The worker goroutines: for j := start; j < iterations; j = nextIndex() {...}

\* The mapping function's behaviour at index j; an index outside
\* [0, iterations) is taken to return nil.
FnAt(j) == IF j \in DOMAIN fn THEN fn[j] ELSE "ok"

\* defer wg.Done()
Exit(w) ==
    /\ wpc' = [wpc EXCEPT ![w] = "exited"]
    /\ wg' = wg - 1

\* The loop condition j < iterations, then either the call fn(ctx, j) or the
\* end of the goroutine.
WorkerLoop(w) ==
    /\ wpc[w] = "loop"
    /\ IF wj[w] < iterations
       THEN /\ calls' = [calls EXCEPT ![wj[w]] = @ + 1]
            /\ wpc' = [wpc EXCEPT ![w] = "call"]
            /\ wg' = wg
       ELSE /\ Exit(w)
            /\ calls' = calls
    /\ UNCHANGED <<inputs, parentDone, lateCancel, pc, result, workers, spawned, index,
                   killOnce, firsterr, ctxDone, ctxErr, watcher, wj, werr>>

\* Every index of [0, iterations) has been invoked and has returned nil.
AllUnitsSucceeded ==
    /\ pc \in {"spawn", "wait", "resolve", "returned"}
    /\ \A i \in 0 .. (iterations - 1) : fn[i] = "ok" /\ calls[i] >= 1
    /\ \A w \in WorkerIds : wpc[w] # "call"

\* fn(ctx, j) returns: nil ("ok"), an error ("fail"), or an error once
\* ctx.Done() is closed ("block": <-ctx.Done() and then the error).
FnReturn(w) ==
    /\ wpc[w] = "call"
    /\ \/ /\ FnAt(wj[w]) = "ok"
          /\ werr' = [werr EXCEPT ![w] = NoError]
          /\ wpc' = [wpc EXCEPT ![w] = "next"]
       \/ /\ FnAt(wj[w]) = "fail"
          /\ werr' = [werr EXCEPT ![w] = UnitError(wj[w])]
          /\ wpc' = [wpc EXCEPT ![w] = "kill"]
       \/ /\ FnAt(wj[w]) = "block"
          /\ ctxDone
          /\ werr' = [werr EXCEPT ![w] = UnitError(wj[w])]
          /\ wpc' = [wpc EXCEPT ![w] = "kill"]
    /\ UNCHANGED <<inputs, parentDone, lateCancel, pc, result, workers, spawned, index,
                   killOnce, firsterr, ctxDone, ctxErr, wg, watcher, wj, calls>>

\* j = nextIndex(): atomic.AddInt32(&index, 1)
WorkerNext(w) ==
    /\ wpc[w] = "next"
    /\ index' = AddInt32(index, 1)
    /\ wj' = [wj EXCEPT ![w] = index']
    /\ wpc' = [wpc EXCEPT ![w] = "loop"]
    /\ UNCHANGED <<inputs, parentDone, lateCancel, pc, result, workers, spawned,
                   killOnce, firsterr, ctxDone, ctxErr, wg, watcher, werr, calls>>

\* The order of kill's statements after a won compare-and-swap:
\* stopIteration(), cancel(), firsterr = err.
KillStepAfterCancelFirst(step) ==
    CASE step = "kill" -> "kill_cancel"
      [] step = "kill_cancel" -> "kill_stop"
      [] step = "kill_stop" -> "kill_err"
KillStepAfter(step) ==
    CASE step = "kill" -> "kill_stop"
      [] step = "kill_stop" -> "kill_cancel"
      [] step = "kill_cancel" -> "kill_err"

\* kill(err): atomic.CompareAndSwapInt32(&killOnce, 0, 1); a worker that loses
\* returns.
KillCasAlwaysWins(ko) == TRUE
KillCasWins(ko) == ko = 0

KillCas(w) ==
    /\ wpc[w] = "kill"
    /\ IF KillCasWins(killOnce)
       THEN /\ killOnce' = 1
            /\ wpc' = [wpc EXCEPT ![w] = KillStepAfter("kill")]
            /\ wg' = wg
       ELSE /\ killOnce' = killOnce
            /\ Exit(w)
    /\ UNCHANGED <<inputs, parentDone, lateCancel, pc, result, workers, spawned, index,
                   firsterr, ctxDone, ctxErr, watcher, wj, werr, calls>>

\* kill(err): stopIteration()
KillStop(w) ==
    /\ wpc[w] = "kill_stop"
    /\ index' = StopValue(index, iterations)
    /\ wpc' = [wpc EXCEPT ![w] = KillStepAfter("kill_stop")]
    /\ UNCHANGED <<inputs, parentDone, lateCancel, pc, result, workers, spawned,
                   killOnce, firsterr, ctxDone, ctxErr, wg, watcher, wj, werr, calls>>

\* cancel() closes ctx.Done().
KillCancelMissing(done) == done
KillCancelled(done) == TRUE

\* kill(err): cancel()
KillCancel(w) ==
    /\ wpc[w] = "kill_cancel"
    /\ ctxDone' = KillCancelled(ctxDone)
    /\ ctxErr' = IF ctxDone' /\ ~ctxDone THEN Canceled ELSE ctxErr
    /\ wpc' = [wpc EXCEPT ![w] = KillStepAfter("kill_cancel")]
    /\ UNCHANGED <<inputs, parentDone, lateCancel, pc, result, workers, spawned, index,
                   killOnce, firsterr, wg, watcher, wj, werr, calls>>

\* kill(err): firsterr = err, and the worker returns.
RecordedErrorNil(e) == NoError
RecordedError(e) == e

KillSetErr(w) ==
    /\ wpc[w] = "kill_err"
    /\ firsterr' = RecordedError(werr[w])
    /\ Exit(w)
    /\ UNCHANGED <<inputs, parentDone, lateCancel, pc, result, workers, spawned, index,
                   killOnce, ctxDone, ctxErr, watcher, wj, werr, calls>>

----------------------------------------------------------------------------
\* The watcher goroutine and the contexts.

\* The watcher's compare-and-swap succeeds only from 0.
WatcherCasUnconditional(ko) == TRUE
WatcherCasWins(ko) == ko = 0

\* <-ctx.Done(), then atomic.CompareAndSwapInt32(&killOnce, 0, 2)
WatcherCas ==
    /\ watcher = "waiting"
    /\ ctxDone
    /\ IF WatcherCasWins(killOnce)
       THEN /\ killOnce' = 2
            /\ watcher' = "stop"
       ELSE /\ killOnce' = killOnce
            /\ watcher' = "exited"
    /\ UNCHANGED <<inputs, parentDone, lateCancel, pc, result, workers, spawned, index,
                   firsterr, ctxDone, ctxErr, wg, wpc, wj, werr, calls>>

\* The watcher's stopIteration().
WatcherStop ==
    /\ watcher = "stop"
    /\ index' = StopValue(index, iterations)
    /\ watcher' = "exited"
    /\ UNCHANGED <<inputs, parentDone, lateCancel, pc, result, workers, spawned,
                   killOnce, firsterr, ctxDone, ctxErr, wg, wpc, wj, werr, calls>>

\* The caller's environment completes the parent context while the call runs.
ParentCancel ==
    /\ parent = "cancel"
    /\ ~parentDone
    /\ pc \notin {"call", "returned"}
    /\ parentDone' = TRUE
    /\ lateCancel' = AllUnitsSucceeded
    /\ UNCHANGED <<inputs, pc, result, workers, spawned, index, killOnce, firsterr,
                   ctxDone, ctxErr, wg, watcher, wpc, wj, werr, calls>>

\* The done parent cancels its child ctx, with its own error.
CtxPropagate ==
    /\ parentDone
    /\ ~ctxDone
    /\ pc \in {"spawn", "wait", "resolve"}
    /\ ctxDone' = TRUE
    /\ ctxErr' = ParentErr
    /\ UNCHANGED <<inputs, parentDone, lateCancel, pc, result, workers, spawned, index,
                   killOnce, firsterr, wg, watcher, wpc, wj, werr, calls>>

----------------------------------------------------------------------------
Next ==
    \/ Enter
    \/ Setup
    \/ SpawnWorker
    \/ Wait
    \/ Resolve
    \/ \E w \in WorkerIds : WorkerLoop(w)
    \/ \E w \in WorkerIds : FnReturn(w)
    \/ \E w \in WorkerIds : WorkerNext(w)
    \/ \E w \in WorkerIds : KillCas(w)
    \/ \E w \in WorkerIds : KillStop(w)
    \/ \E w \in WorkerIds : KillCancel(w)
    \/ \E w \in WorkerIds : KillSetErr(w)
    \/ WatcherCas
    \/ WatcherStop
    \/ ParentCancel
    \/ CtxPropagate

Spec == Init /\ [][Next]_vars

\* The Go scheduler runs every goroutine that can take a step: the caller, the
\* workers, the watcher and the propagation of the parent's completion.  The
\* completion of the parent itself is up to the caller's environment.
Fairness ==
    /\ WF_vars(Enter)
    /\ WF_vars(Setup)
    /\ WF_vars(SpawnWorker)
    /\ WF_vars(Wait)
    /\ WF_vars(Resolve)
    /\ \A w \in WorkerIds :
         /\ WF_vars(WorkerLoop(w))
         /\ WF_vars(FnReturn(w))
         /\ WF_vars(WorkerNext(w))
         /\ WF_vars(KillCas(w))
         /\ WF_vars(KillStop(w))
         /\ WF_vars(KillCancel(w))
         /\ WF_vars(KillSetErr(w))
    /\ WF_vars(WatcherCas)
    /\ WF_vars(WatcherStop)
    /\ WF_vars(CtxPropagate)

FairInit ==
    /\ Init
    /\ workersArg <= FairMaxWorkers
    /\ iterations <= FairMaxIterations

FairSpec == FairInit /\ [][Next]_vars /\ Fairness

\* The same program with the cursor's type narrowed to -(NarrowMax+1) ..
\* NarrowMax and an iterations argument at or just below the largest value of
\* that type, as iterations close to the largest int32 are in the code.
InitNarrow ==
    /\ api \in {"Run", "RunWithContext"}
    /\ workersArg \in 1 .. MaxWorkers
    /\ iterations \in (NarrowMax - 1) .. NarrowMax
    /\ fnNil = FALSE
    /\ fn \in [0 .. (iterations - 1) -> Behaviours]
    /\ parent \in (IF api = "Run" THEN {"background"} ELSE {"background", "cancel"})
    /\ parentDone = FALSE
    /\ lateCancel = FALSE
    /\ pc = "call"
    /\ result = NoError
    /\ workers = 0
    /\ spawned = 0
    /\ index = 0
    /\ killOnce = 0
    /\ firsterr = NoError
    /\ ctxDone = FALSE
    /\ ctxErr = NoError
    /\ wg = 0
    /\ watcher = "none"
    /\ wpc = [w \in WorkerIds |-> "idle"]
    /\ wj = [w \in WorkerIds |-> 0]
    /\ werr = [w \in WorkerIds |-> NoError]
    /\ calls = [i \in CallDomain |-> 0]
    /\ cursorMax = NarrowMax

SpecNarrow == InitNarrow /\ [][Next]_vars

----------------------------------------------------------------------------
\* Vocabulary of the properties.

\* workers >= 1, iterations >= 0, fn and parent not nil.
ValidArgs == workersArg >= 1 /\ iterations >= 0 /\ ~fnNil /\ parent # "nil"

\* No worker and no watcher was started and fn was never invoked.
NothingStarted ==
    /\ \A w \in WorkerIds : wpc[w] = "idle"
    /\ watcher = "none"
    /\ spawned = 0
    /\ wg = 0
    /\ \A i \in CallDomain : calls[i] = 0

\* The workers were started.
Started == pc \in {"spawn", "wait", "resolve", "returned"} /\ workers >= 1

\* The number of units that fn was invoked with.
RECURSIVE SumCalls(_)
SumCalls(S) == IF S = {} THEN 0
               ELSE LET i == CHOOSE x \in S : TRUE IN calls[i] + SumCalls(S \ {i})
TotalCalls == SumCalls(CallDomain)

\* Some unit has returned an error.
UnitFailed == \E w \in WorkerIds : werr[w] # NoError

\* The indices handed to a worker: the starting indices 0 .. workers-1 that the
\* cursor's initial value sets aside, and every index below iterations that
\* nextIndex has returned.
Dispatched ==
    IF ~Started THEN {}
    ELSE (0 .. (workers - 1))
         \cup {i \in CallDomain : calls[i] > 0}
         \cup {wj[w] : w \in {v \in WorkerIds : wpc[v] = "loop" /\ wj[v] < iterations}}

\* The worker that won kill's compare-and-swap has stored the exhausted cursor.
LocalStopDone == killOnce = 1 /\ \A w \in WorkerIds : wpc[w] # "kill_stop"

\* The workers between a won compare-and-swap and the end of kill.
Winners == {w \in WorkerIds : wpc[w] \in {"kill_stop", "kill_cancel", "kill_err"}}

----------------------------------------------------------------------------
\* C1: with valid arguments, no completing parent and every unit returning nil,
\* fn is invoked with each index of [0, iterations) exactly once (never twice,
\* never outside the range) and the call returns no error.
C1_EachIndexExactlyOnce ==
    (ValidArgs /\ parent = "background" /\ \A i \in DOMAIN fn : fn[i] = "ok")
    => /\ \A i \in CallDomain : calls[i] <= (IF i < iterations THEN 1 ELSE 0)
       /\ pc = "returned" =>
            /\ result = NoError
            /\ \A i \in 0 .. (iterations - 1) : calls[i] = 1

C1_Witness ==
    /\ api = "Run" /\ pc = "returned" /\ workersArg = 2 /\ iterations = 3
    /\ \A i \in DOMAIN fn : fn[i] = "ok"
    /\ \A i \in 0 .. 2 : calls[i] = 1
    /\ result = NoError

\* C2: Run with valid arguments, exactly one failing index k and every other
\* unit returning nil returns exactly the error of k.
C2_SingleFailureReturned ==
    \A k \in DOMAIN fn :
        ( /\ ValidArgs /\ parent = "background"
          /\ fn[k] = "fail"
          /\ \A i \in DOMAIN fn \ {k} : fn[i] = "ok"
          /\ pc = "returned" )
        => result = UnitError(k)

C2_Witness ==
    /\ api = "Run" /\ pc = "returned" /\ workersArg = 2 /\ iterations = 3
    /\ fn[0] = "ok" /\ fn[1] = "fail" /\ fn[2] = "ok"
    /\ calls[2] = 1
    /\ result = UnitError(1)

\* C3: when the parent context completes only after every unit has been
\* invoked and has returned nil, RunWithContext returns no error.
C3_LateCancelReturnsNoError ==
    (pc = "returned" /\ lateCancel) => result = NoError

\* C4 (as stated): a parent that is done before the call, with workers > 0,
\* iterations >= 0 and fn not nil, makes RunWithContext return the parent's
\* error without invoking fn or starting a goroutine.
C4_DoneParentAnyIterations ==
    [][ (pc = "call" /\ api = "RunWithContext" /\ ValidArgs /\ parentDone)
        => (pc' = "returned" /\ result' = ParentErr /\ NothingStarted') ]_vars

\* C4 (amended): the same with iterations >= 1; with iterations = 0 the call
\* returns no error instead.  In both cases nothing is started, then or later.
C4_DoneParentReturnsItsError ==
    /\ [][ (pc = "call" /\ api = "RunWithContext" /\ ValidArgs /\ parentDone)
           => /\ pc' = "returned"
              /\ result' = (IF iterations >= 1 THEN ParentErr ELSE NoError)
              /\ NothingStarted' ]_vars
    /\ []((pc = "returned" /\ workers = 0) => NothingStarted)

C4_Witness ==
    /\ api = "RunWithContext" /\ ValidArgs /\ parentDone /\ iterations = 2
    /\ pc = "returned" /\ result = ParentErr /\ NothingStarted

\* C5: workers <= iterations, the unit at index workers-1 fails and every other
\* unit blocks on ctx.Done() and then returns its own error: the call never
\* gets stuck, returns the error of index workers-1, and fn was invoked exactly
\* with the indices 0 .. workers-1, once each.
C5_Scenario ==
    /\ ValidArgs /\ parent = "background"
    /\ workersArg <= iterations
    /\ \A i \in DOMAIN fn : fn[i] = (IF i = workersArg - 1 THEN "fail" ELSE "block")

C5_InitialBatchOnly ==
    C5_Scenario
    => /\ pc # "returned" => ENABLED Next
       /\ TotalCalls <= workersArg
       /\ pc = "returned" =>
            /\ result = UnitError(workersArg - 1)
            /\ \A i \in CallDomain : calls[i] = (IF i < workersArg THEN 1 ELSE 0)

C5_Witness ==
    /\ C5_Scenario /\ workersArg = 2 /\ iterations = 3
    /\ pc = "returned" /\ result = UnitError(1) /\ TotalCalls = 2

C7_InvalidArgsAlways ==
    /\ (workersArg <= 0 \/ iterations < 0) => (pc \in {"call", "returned"} /\ NothingStarted)
    /\ (pc = "returned" /\ workersArg <= 0) => result = ErrInvalidWorkers
    /\ (pc = "returned" /\ iterations < 0) => result = ErrInvalidIterations

\* C7 (amended): workers <= 0 yields ErrInvalidWorkers, and iterations < 0
\* with workers > 0 yields ErrInvalidIterations, except that Run with a nil fn
\* yields ErrNilMappingFunction before either; nothing is started in any of
\* these cases.
C7_InvalidArgsInOrder ==
    /\ (workersArg <= 0 \/ iterations < 0) => (pc \in {"call", "returned"} /\ NothingStarted)
    /\ (pc = "returned" /\ (workersArg <= 0 \/ iterations < 0) /\ api = "Run" /\ fnNil)
       => result = ErrNilMappingFunction
    /\ (pc = "returned" /\ workersArg <= 0 /\ ~(api = "Run" /\ fnNil))
       => result = ErrInvalidWorkers
    /\ (pc = "returned" /\ iterations < 0 /\ workersArg > 0 /\ ~(api = "Run" /\ fnNil))
       => result = ErrInvalidIterations

C7_Witness ==
    /\ pc = "returned" /\ api = "RunWithContext" /\ workersArg = 0 /\ iterations = -1
    /\ fnNil /\ parent = "nil"
    /\ result = ErrInvalidWorkers /\ NothingStarted

\* C8: with workers > 0, fn and parent not nil and iterations = 0 the call
\* returns no error, never invokes fn and starts neither worker nor watcher,
\* whether the parent is done or not.
C8_ZeroIterations ==
    (workersArg > 0 /\ ~fnNil /\ parent # "nil" /\ iterations = 0)
    => /\ pc \in {"call", "returned"}
       /\ NothingStarted
       /\ pc = "returned" => result = NoError

C8_Witness ==
    /\ api = "RunWithContext" /\ workersArg = 2 /\ ~fnNil /\ iterations = 0
    /\ parent = "cancel" /\ parentDone
    /\ pc = "returned" /\ result = NoError /\ NothingStarted

\* C9: once wg.Wait() has returned (the result is being resolved or the call
\* has returned after starting workers), every worker has exited, no unit is in
\* flight and the WaitGroup is at zero; a worker stops only by returning from
\* its own loop.
C9_AllWorkersJoined ==
    (Started /\ pc \in {"resolve", "returned"})
    => /\ wg = 0
       /\ spawned = workers
       /\ \A w \in WorkerIds : wpc[w] = (IF w < workers THEN "exited" ELSE "idle")

C9_Witness ==
    /\ pc = "returned" /\ workers = 3 /\ killOnce = 2 /\ result = ParentErr
    /\ \A w \in WorkerIds : wpc[w] = "exited"
    /\ TotalCalls = 3

\* C10: at most one worker wins kill's compare-and-swap; firsterr is written
\* once, by that worker, with the error its unit returned, and never changes
\* afterwards; a call in which a worker won returns firsterr, also when the
\* parent completed meanwhile; without a completing parent a failed unit
\* always has a winner.
C10_FirstErrorWins ==
    /\ [](Cardinality(Winners) <= 1)
    /\ [][ firsterr' # firsterr
           => /\ firsterr = NoError
              /\ killOnce = 1
              /\ \E w \in Winners : wpc[w] = "kill_err" /\ firsterr' = werr[w]
                                    /\ firsterr' = UnitError(wj[w]) ]_vars
    /\ []((pc = "returned" /\ killOnce = 1) => (result = firsterr /\ firsterr # NoError))
    /\ []((pc = "returned" /\ parent = "background" /\ UnitFailed) => killOnce = 1)

C10_Witness ==
    /\ pc = "returned" /\ killOnce = 1 /\ parentDone
    /\ Cardinality({w \in WorkerIds : werr[w] # NoError}) >= 2
    /\ result = firsterr /\ result.kind = "unit"

\* C11: once the watcher has won the compare-and-swap (killOnce = 2), ctx was
\* cancelled by the parent and carries the parent's error, no worker's error is
\* ever recorded, killOnce stays 2 whatever units fail afterwards, and the call
\* returns the parent's error.
C11_ExternalCancelReturned ==
    /\ [](killOnce = 2 => /\ parentDone /\ ctxDone /\ ctxErr = ParentErr
                          /\ firsterr = NoError)
    /\ [][ killOnce = 2 => killOnce' = 2 ]_vars
    /\ []((pc = "returned" /\ killOnce = 2) => result = ParentErr)

C11_Witness ==
    /\ pc = "returned" /\ killOnce = 2 /\ result = ParentErr
    /\ \E w \in WorkerIds : wpc[w] = "exited" /\ werr[w] # NoError

\* The goroutines of the pool that have been started, the units in flight and
\* the watchers alive.
WorkersStarted == Cardinality({w \in WorkerIds : wpc[w] # "idle"})
UnitsInFlight == Cardinality({w \in WorkerIds : wpc[w] = "call"})
WatchersAlive == IF watcher \in {"waiting", "stop"} THEN 1 ELSE 0
Min(a, b) == IF a < b THEN a ELSE b

\* C12: a call that starts workers starts min(workers, iterations) of them:
\* never more, and exactly that many once the spawning loop is over; at most
\* that many units are in flight; there is at most one watcher, and none when
\* the parent cannot complete.
C12_PoolSize ==
    /\ WorkersStarted <= Min(workersArg, iterations) \/ WorkersStarted = 0
    /\ WorkersStarted = spawned
    /\ (Started /\ pc # "spawn") => WorkersStarted = Min(workersArg, iterations)
    /\ UnitsInFlight <= WorkersStarted
    /\ WatchersAlive <= 1
    /\ ~ParentCanComplete => watcher = "none"
    /\ (ParentCanComplete /\ Started) => watcher # "none"

C12_Witness ==
    /\ workersArg = 3 /\ iterations = 2 /\ parent = "cancel"
    /\ pc = "wait" /\ WorkersStarted = 2 /\ UnitsInFlight = 2 /\ WatchersAlive = 1

\* C13: killOnce changes only from 0, and only to 1, 2 or 3; once it is not 0
\* it never changes again.
C13_SettlesOnce ==
    [][ killOnce' # killOnce => (killOnce = 0 /\ killOnce' \in {1, 2, 3}) ]_vars

C13_Witness ==
    /\ pc = "returned" /\ killOnce = 2 /\ watcher = "exited"
    /\ Cardinality({w \in WorkerIds : wpc[w] = "exited" /\ werr[w] # NoError}) >= 2

\* C14 (as stated): when the call returns, the watcher has terminated.
C14_WatcherGoneAtReturn ==
    pc = "returned" => watcher \in {"none", "exited"}

\* C14 (amended): when the call returns after starting a watcher, ctx is
\* cancelled (by the deferred cancel() at the latest), so the watcher's wait is
\* over; under fair scheduling the watcher then terminates, also when the
\* parent never completes, and it never comes back.  It may still be running
\* at the moment of the return.
C14_WatcherTerminates ==
    /\ []((pc = "returned" /\ watcher # "none") => ctxDone)
    /\ (pc = "returned") ~> (watcher \in {"none", "exited"})
    /\ [][ watcher = "exited" => watcher' = "exited" ]_vars

C14_Witness ==
    /\ pc = "returned" /\ parent = "cancel" /\ ~parentDone
    /\ killOnce = 3 /\ watcher = "exited"

\* The winner of the compare-and-swap, worker or watcher, has stored the
\* exhausted cursor.
WatcherStopDone == killOnce = 2 /\ watcher = "exited"
StopStored == LocalStopDone \/ WatcherStopDone

CancelledByWinner == killOnce = 1 /\ ctxDone /\ ctxErr = Canceled

\* C16: whenever ctx has been cancelled by the winning worker the cursor is at
\* or beyond iterations, and once a forced exhaustion has been stored every
\* value nextIndex returns is at or beyond iterations.
C16_ExhaustedBeforeCancel ==
    /\ [](CancelledByWinner => index >= iterations)
    /\ [](StopStored => index >= iterations)
    /\ [][ StopStored => \A w \in WorkerIds :
                (wpc[w] = "next" /\ wpc'[w] = "loop") => wj'[w] >= iterations ]_vars

C16_Witness ==
    /\ CancelledByWinner /\ \E w \in WorkerIds : wpc[w] = "kill_err"
    /\ \E w \in WorkerIds : wpc[w] = "loop" /\ wj[w] > iterations
    /\ \E i \in DOMAIN fn : calls[i] = 0

\* Some worker goroutine has been started and has not returned.
WorkerRunning == \E w \in WorkerIds : wpc[w] \notin {"idle", "exited"}

\* C17 (as stated): while a worker is running, ctx is cancelled exactly when
\* the parent is done or a worker has won the compare-and-swap.
C17_CancelledIff ==
    WorkerRunning => (ctxDone <=> (parentDone \/ killOnce = 1))

\* C17 (amended): while a worker is running, a cancelled ctx implies that the
\* parent is done or a worker has won the compare-and-swap; conversely ctx is
\* cancelled once the winning worker has executed cancel() (after its
\* stopIteration) or once the parent's completion has reached the child, not
\* from the instant of the transition or of the parent's completion.
C17_CancelledOnlyIf ==
    WorkerRunning
    => /\ ctxDone => (parentDone \/ killOnce = 1)
       /\ ctxDone => ((ctxErr = ParentErr /\ parentDone) \/ (ctxErr = Canceled /\ killOnce = 1))
       /\ (killOnce = 1 /\ Winners = {}) => ctxDone
       /\ (\E w \in Winners : wpc[w] = KillStepAfter("kill_cancel")) => ctxDone
       /\ killOnce = 2 => ctxDone

C17_Witness ==
    /\ WorkerRunning /\ ctxDone /\ ctxErr = Canceled /\ killOnce = 1 /\ ~parentDone
    /\ \E w \in WorkerIds : wpc[w] = "call" /\ FnAt(wj[w]) = "block"

\* The call has returned and no goroutine it started is left.
Quiescent ==
    /\ pc = "returned"
    /\ \A w \in WorkerIds : wpc[w] \in {"idle", "exited"}
    /\ watcher \in {"none", "exited"}

\* C18: under fair scheduling, if no invocation of fn stays in flight for
\* ever, the call returns and every goroutine it started ends; a worker that
\* has exited stays exited, and the caller's position never leaves "returned".
C18_Terminates ==
    /\ (\A w \in WorkerIds : []<>(wpc[w] # "call")) => <>Quiescent
    /\ [][ \A w \in WorkerIds : wpc[w] = "exited" => wpc'[w] = "exited" ]_vars
    /\ [][ pc = "returned" => pc' = "returned" ]_vars

C18_Witness ==
    /\ Quiescent /\ workers = 2 /\ parent = "cancel" /\ parentDone
    /\ \E i \in DOMAIN fn : fn[i] = "block"
    /\ \E i \in DOMAIN fn : fn[i] = "fail"

\* C19: a call that started workers and returns no error has invoked fn with
\* every index of [0, iterations) exactly once, with no other index, and every
\* one of these units returned nil.
C19_NilMeansComplete ==
    (pc = "returned" /\ Started /\ result = NoError)
    => /\ \A i \in CallDomain : calls[i] = (IF i < iterations THEN 1 ELSE 0)
       /\ \A i \in DOMAIN fn : fn[i] = "ok"
       /\ ~UnitFailed
       /\ killOnce \in {0, 3}

C19_Witness ==
    /\ pc = "returned" /\ result = NoError /\ parent = "cancel" /\ parentDone
    /\ killOnce = 3 /\ workers = 2 /\ iterations = 3
    /\ \A i \in 0 .. 2 : calls[i] = 1

\* C20: with the cursor a fixed-width signed counter and iterations up to the
\* largest value of its type, fn is only ever invoked with an index of
\* [0, iterations), and with none of them twice.
C20_IndicesInRangeOnce ==
    /\ \A w \in WorkerIds : wpc[w] = "call" => (wj[w] >= 0 /\ wj[w] < iterations)
    /\ \A i \in CallDomain : calls[i] <= 1

====
